---- MODULE Spec2Model ----
(***************************************************************************)
(* A model of py_stream/stream.py: lazy streams over Python generators.    *)
(*                                                                         *)
(* A generator object is a record of `gens`; a Stream handle is an entry   *)
(* of `streams` naming the generator it wraps (_DefaultStream._stream).    *)
(* next() on a generator is the operator GenNext, which runs the body of   *)
(* the generator up to its next yield, its return or an exception, pulling *)
(* from the generators below it as the code does.                          *)
(***************************************************************************)
EXTENDS Integers, Sequences, FiniteSets, TLC

\* ---------------------------------------------------------------- bounds
MaxLen == 2          \* longest source sequence
MaxStreams == 2      \* Stream handles built in one behaviour
MaxInputs == 1       \* most inputs given to one concat() call
ConcatArity == 3     \* inputs of the concat() call examined on its own

\* ---------------------------------------------------------------- inputs
None == 0            \* Python's None (the values are None, 1, 2)
Values == {None, 1, 2}
SizeArgs == (0 - 1)..MaxLen
Predicates == {"is_even", "is_none"}
Mappers == {"inc"}
\* the mappers given to map() over another stage: also lambda x: x * 10
ChainMappers == Mappers \cup {"times10"}
ChainExamples == {<<1, 2, 3, 4, 5>>, <<1, 2, 3, 4>>}
Actions == {"note"}
Comparators == {"eq", "same_parity"}
\* the comparators given to distinct() where distinct() is what is examined:
\* also one that is no equivalence relation, and the one of the worked example
DistinctComparators == Comparators \cup {"same_mod3", "less"}
DistinctExamples == {<<1, 4, 2, 5>>, <<1, 2, 2, 3, 1>>}

RECURSIVE SeqsUpTo(_, _)
SeqsUpTo(S, n) ==
    IF n = 0 THEN {<<>>}
    ELSE LET shorter == SeqsUpTo(S, n - 1)
         IN  shorter \cup {Append(s, x) : s \in {t \in shorter : Len(t) = n - 1}, x \in S}

VARIABLES gens, streams, last
vars == <<gens, streams, last>>

\* ------------------------------------------------------------- callbacks
\* lambda x: x % 2 == 0 raises TypeError on None; lambda x: x is None is total.
PredRaises(p, v) == p.name = "is_even" /\ v = None
PredRaised(p) == "TypeError"
PredHolds(p, v) ==
    LET b == IF p.name = "is_even" THEN v % 2 = 0 ELSE v = None
    IN  b # p.neg
Pred(name) == [name |-> name, neg |-> FALSE]
\* lambda t: not predicate(t)
NotPred(name) == [name |-> name, neg |-> TRUE]

\* lambda x: x + 1 and lambda x: x * 10 raise TypeError on None;
\* lambda x: next(y for y in (x,) if y is not None) raises StopIteration on it
MapperRaises(f, v) == v = None
MapperRaised(f) == IF f = "some" THEN "StopIteration" ELSE "TypeError"
MapperValue(f, v) ==
    CASE f = "times10" -> v * 10
      [] f = "some" -> v
      [] OTHER -> v + 1

\* an action that records its argument: never raises
ActionRaises(a, v) == FALSE
ActionRaised(a) == "TypeError"

\* lambda a, b: a % 2 == b % 2, lambda a, b: a % 3 == b % 3 and
\* lambda a, b: a < b all raise TypeError on None
CmpRaises(c, a, b) == a = None \/ b = None
CmpRaised(c) == "TypeError"
CmpHolds(c, a, b) ==
    CASE c = "same_mod3" -> a % 3 = b % 3
      [] c = "less" -> a < b
      [] OTHER -> a % 2 = b % 2

Call(g, fn, args) == [g |-> g, fn |-> fn, args |-> args]

\* ------------------------------------------------------------ generators
NewGen(kind, up, ups, fn, n) ==
    [kind |-> kind, up |-> up, ups |-> ups, fn |-> fn, n |-> n,
     st |-> "new", idx |-> 0, prev |-> <<>>, items |-> <<>>,
     in |-> <<>>, out |-> <<>>]

SourceGen(items) == [NewGen("source", 0, <<>>, "", 0) EXCEPT !.items = items]

get_stream(h) == streams[h]

\* a concat input is a Stream handle or a raw generator
YieldStream(x) == IF x.is_gen THEN x.id ELSE get_stream(x.id)

\* _is_list_contains_value calling comparator(value, l)
RECURSIVE ListContains_Swapped(_, _, _, _, _)
ListContains_Swapped(g, the_list, value, comparator, log) ==
    IF comparator = "eq"
    THEN [raised |-> FALSE, log |-> log,
          found |-> \E i \in 1..Len(the_list) : the_list[i] = value]
    ELSE IF the_list = <<>>
    THEN [raised |-> FALSE, found |-> FALSE, log |-> log]
    ELSE LET l == Head(the_list)
             lg == Append(log, Call(g, comparator, <<value, l>>))
         IN  IF CmpRaises(comparator, value, l)
             THEN [raised |-> TRUE, found |-> FALSE, log |-> lg]
             ELSE IF CmpHolds(comparator, value, l)
             THEN [raised |-> FALSE, found |-> TRUE, log |-> lg]
             ELSE ListContains_Swapped(g, Tail(the_list), value, comparator, lg)

\* _is_list_contains_value: [raised, found, log]
RECURSIVE ListContains(_, _, _, _, _)
ListContains(g, the_list, value, comparator, log) ==
    IF comparator = "eq"
    THEN [raised |-> FALSE, log |-> log,
          found |-> \E i \in 1..Len(the_list) : the_list[i] = value]
    ELSE IF the_list = <<>>
    THEN [raised |-> FALSE, found |-> FALSE, log |-> log]
    ELSE LET l == Head(the_list)
             lg == Append(log, Call(g, comparator, <<l, value>>))
         IN  IF CmpRaises(comparator, l, value)
             THEN [raised |-> TRUE, found |-> FALSE, log |-> lg]
             ELSE IF CmpHolds(comparator, l, value)
             THEN [raised |-> FALSE, found |-> TRUE, log |-> lg]
             ELSE ListContains(g, Tail(the_list), value, comparator, lg)

\* an exception that leaves the body of a generator: a StopIteration arrives
\* at the caller of next() as a RuntimeError, any other as itself
Escaping(exc) == IF exc = "StopIteration" THEN "RuntimeError" ELSE exc

\* the three ways a generator's body hands control back to next()
Stop(gs, g, log) ==
    [gs |-> [gs EXCEPT ![g].st = "done"], tag |-> "stop", val |-> None,
     exc |-> "", log |-> log]
Raise(gs, g, exc, log) ==
    [gs |-> [gs EXCEPT ![g].st = "done"], tag |-> "err", val |-> None,
     exc |-> Escaping(exc), log |-> log]
Yield(gs, g, v, log) ==
    [gs |-> [gs EXCEPT ![g].st = "susp", ![g].out = Append(@, v)],
     tag |-> "val", val |-> v, exc |-> "", log |-> log]

\* the generator g received t from the generator below it
Recv(gs, g, t) == [gs EXCEPT ![g].in = Append(@, t)]

\* what a body does when next() enters it: the first time it sets its locals,
\* later it runs the statements that follow the yield it was suspended at
Resume(gs, g) ==
    LET r == gs[g] IN
    IF r.st = "new"
    THEN [gs EXCEPT ![g].st = "susp",
                    ![g].idx = IF r.kind = "concat" THEN 1 ELSE r.n]
    ELSE IF r.kind = "distinct"
    THEN [gs EXCEPT ![g].prev = Append(@, r.out[Len(r.out)])]
    ELSE gs

RECURSIVE GenNext(_, _, _)
RECURSIVE Loop(_, _, _)

\* skip with "if _idx >= 0": one element too many is dropped
SkipBody_OffByOne(gs, g, t, log) ==
    IF gs[g].idx >= 0 THEN Loop([gs EXCEPT ![g].idx = @ - 1], g, log)
    ELSE Yield(gs, g, t, log)

\* skip's loop body: "if _idx > 0: _idx -= 1; continue" then "yield t"
SkipBody(gs, g, t, log) ==
    IF gs[g].idx > 0 THEN Loop([gs EXCEPT ![g].idx = @ - 1], g, log)
    ELSE Yield(gs, g, t, log)

\* limit's loop body: "if _idx <= 0: _idx -= 1; break" then "yield t"
LimitBody(gs, g, t, log) ==
    IF gs[g].idx <= 0 THEN Stop([gs EXCEPT ![g].idx = @ - 1], g, log)
    ELSE Yield(gs, g, t, log)

\* concat that ends at the end of the input it is reading
ConcatBody_EndsWithInput(gs, g, log) ==
    LET r == gs[g] IN
    IF r.idx > Len(r.ups) THEN Stop(gs, g, log)
    ELSE LET v == GenNext(gs, YieldStream(r.ups[r.idx]), log) IN
         CASE v.tag = "val" -> Yield(Recv(v.gs, g, v.val), g, v.val, v.log)
           [] v.tag = "stop" -> Stop(v.gs, g, v.log)
           [] v.tag = "err" -> Raise(v.gs, g, v.exc, v.log)

\* concat's nested loops: "for stream in streams: for t in
\* _yield_stream(stream): yield t"; idx is the input being read
ConcatBody(gs, g, log) ==
    LET r == gs[g] IN
    IF r.idx > Len(r.ups) THEN Stop(gs, g, log)
    ELSE LET v == GenNext(gs, YieldStream(r.ups[r.idx]), log) IN
         CASE v.tag = "val" -> Yield(Recv(v.gs, g, v.val), g, v.val, v.log)
           [] v.tag = "stop" -> Loop([v.gs EXCEPT ![g].idx = @ + 1], g, v.log)
           [] v.tag = "err" -> Raise(v.gs, g, v.exc, v.log)

\* distinct that forgets what it has yielded when it meets a repeated value
DistinctBody_Forget(gs, g, t, log) ==
    LET c == ListContains(g, gs[g].prev, t, gs[g].fn, log)
    IN  IF c.raised THEN Raise(gs, g, CmpRaised(gs[g].fn), c.log)
        ELSE IF c.found THEN Loop([gs EXCEPT ![g].prev = <<>>], g, c.log)
        ELSE Yield(gs, g, t, c.log)

\* distinct's loop body: "if _is_list_contains_value(...): continue" then
\* "yield t" (the append that follows the yield runs when the body is resumed)
DistinctBody(gs, g, t, log) ==
    LET c == ListContains(g, gs[g].prev, t, gs[g].fn, log)
    IN  IF c.raised THEN Raise(gs, g, CmpRaised(gs[g].fn), c.log)
        ELSE IF c.found THEN Loop(gs, g, c.log)
        ELSE Yield(gs, g, t, c.log)

\* map with "yield mapper(t) if mapper(t) is not None else None"
MapBody_CallsTwice(gs, g, t, log) ==
    LET lg == Append(log, Call(g, gs[g].fn, <<t>>))
    IN  IF MapperRaises(gs[g].fn, t) THEN Raise(gs, g, MapperRaised(gs[g].fn), lg)
        ELSE Yield(gs, g, MapperValue(gs[g].fn, t),
                   Append(lg, Call(g, gs[g].fn, <<t>>)))

\* map's loop body: "yield mapper(t)"
MapBody(gs, g, t, log) ==
    LET lg == Append(log, Call(g, gs[g].fn, <<t>>))
    IN  IF MapperRaises(gs[g].fn, t) THEN Raise(gs, g, MapperRaised(gs[g].fn), lg)
        ELSE Yield(gs, g, MapperValue(gs[g].fn, t), lg)

\* filter with "else: break": ends at the first rejected element
FilterBody_TakeWhile(gs, g, t, log) ==
    LET lg == Append(log, Call(g, gs[g].fn, <<t>>))
    IN  IF PredRaises(Pred(gs[g].fn), t)
        THEN Raise(gs, g, PredRaised(Pred(gs[g].fn)), lg)
        ELSE IF PredHolds(Pred(gs[g].fn), t) THEN Yield(gs, g, t, lg)
        ELSE Stop(gs, g, lg)

\* filter's loop body: "if filtration(t): yield t"
FilterBody(gs, g, t, log) ==
    LET lg == Append(log, Call(g, gs[g].fn, <<t>>))
    IN  IF PredRaises(Pred(gs[g].fn), t)
        THEN Raise(gs, g, PredRaised(Pred(gs[g].fn)), lg)
        ELSE IF PredHolds(Pred(gs[g].fn), t) THEN Yield(gs, g, t, lg)
        ELSE Loop(gs, g, lg)

\* peek without the call of action
PeekBody_Silent(gs, g, t, log) == Yield(gs, g, t, log)

\* peek's loop body: "action(t)" then "yield t"
PeekBody(gs, g, t, log) ==
    LET lg == Append(log, Call(g, gs[g].fn, <<t>>))
    IN  IF ActionRaises(gs[g].fn, t) THEN Raise(gs, g, ActionRaised(gs[g].fn), lg)
        ELSE Yield(gs, g, t, lg)

\* the body of one iteration of a stage's loop, once it has pulled t
Stage(gs, g, t, log) ==
    LET r == gs[g] IN
    CASE r.kind = "map" -> MapBody(gs, g, t, log)
      [] r.kind = "filter" -> FilterBody(gs, g, t, log)
      [] r.kind = "not_null" ->
           IF t # None THEN Yield(gs, g, t, log) ELSE Loop(gs, g, log)
      [] r.kind = "distinct" -> DistinctBody(gs, g, t, log)
      [] r.kind = "peek" -> PeekBody(gs, g, t, log)
      [] r.kind = "skip" -> SkipBody(gs, g, t, log)
      [] r.kind = "limit" -> LimitBody(gs, g, t, log)

\* one turn of "for t in ...": pull the generator below, then run the body
Loop(gs, g, log) ==
    LET r == gs[g] IN
    CASE r.kind = "source" ->
           IF r.items = <<>> THEN Stop(gs, g, log)
           ELSE Yield([gs EXCEPT ![g].items = Tail(@)], g, Head(r.items), log)
      [] r.kind = "empty" -> Stop(gs, g, log)
      [] r.kind = "concat" -> ConcatBody(gs, g, log)
      [] OTHER ->
           LET u == GenNext(gs, r.up, log) IN
           CASE u.tag = "val" -> Stage(Recv(u.gs, g, u.val), g, u.val, u.log)
             [] u.tag = "stop" -> Stop(u.gs, g, u.log)
             [] u.tag = "err" -> Raise(u.gs, g, u.exc, u.log)

\* next(g): a finished generator raises StopIteration and nothing else happens
GenNext(gs, g, log) ==
    IF gs[g].st = "done"
    THEN [gs |-> gs, tag |-> "stop", val |-> None, exc |-> "", log |-> log]
    ELSE Loop(Resume(gs, g), g, log)

\* ------------------------------------------------------ terminal operators
Returned(gs, ret, cnt, recv, log) ==
    [gs |-> gs, tag |-> "ret", exc |-> "", ret |-> ret, cnt |-> cnt,
     recv |-> recv, log |-> log]
Failed(gs, exc, recv, log) ==
    [gs |-> gs, tag |-> "err", exc |-> exc, ret |-> FALSE, cnt |-> 0,
     recv |-> recv, log |-> log]

\* any_match without the early "return True": it tests every element
RECURSIVE any_match_NoReturn(_, _, _, _, _)
any_match_NoReturn(gs, g, predicate, recv, log) ==
    LET u == GenNext(gs, g, log) IN
    CASE u.tag = "stop" ->
           Returned(u.gs, \E i \in 1..Len(recv) : PredHolds(predicate, recv[i]),
                    0, recv, u.log)
      [] u.tag = "err" -> Failed(u.gs, u.exc, recv, u.log)
      [] u.tag = "val" ->
           LET rc == Append(recv, u.val)
               lg == Append(u.log, Call(0, predicate.name, <<u.val>>))
           IN  IF PredRaises(predicate, u.val)
               THEN Failed(u.gs, PredRaised(predicate), rc, lg)
               ELSE any_match_NoReturn(u.gs, g, predicate, rc, lg)

RECURSIVE any_match(_, _, _, _, _)
any_match(gs, g, predicate, recv, log) ==
    LET u == GenNext(gs, g, log) IN
    CASE u.tag = "stop" -> Returned(u.gs, FALSE, 0, recv, u.log)
      [] u.tag = "err" -> Failed(u.gs, u.exc, recv, u.log)
      [] u.tag = "val" ->
           LET rc == Append(recv, u.val)
               lg == Append(u.log, Call(0, predicate.name, <<u.val>>))
           IN  IF PredRaises(predicate, u.val)
               THEN Failed(u.gs, PredRaised(predicate), rc, lg)
               ELSE IF PredHolds(predicate, u.val) THEN Returned(u.gs, TRUE, 0, rc, lg)
               ELSE any_match(u.gs, g, predicate, rc, lg)

\* all_match without the early "return False": it tests every element
RECURSIVE all_match_NoReturn(_, _, _, _, _)
all_match_NoReturn(gs, g, predicate, recv, log) ==
    LET u == GenNext(gs, g, log) IN
    CASE u.tag = "stop" ->
           Returned(u.gs, \A i \in 1..Len(recv) : PredHolds(predicate, recv[i]),
                    0, recv, u.log)
      [] u.tag = "err" -> Failed(u.gs, u.exc, recv, u.log)
      [] u.tag = "val" ->
           LET rc == Append(recv, u.val)
               lg == Append(u.log, Call(0, predicate.name, <<u.val>>))
           IN  IF PredRaises(predicate, u.val)
               THEN Failed(u.gs, PredRaised(predicate), rc, lg)
               ELSE all_match_NoReturn(u.gs, g, predicate, rc, lg)

\* all_match ending in "return False"
RECURSIVE all_match_FalseAtEnd(_, _, _, _, _)
all_match_FalseAtEnd(gs, g, predicate, recv, log) ==
    LET u == GenNext(gs, g, log) IN
    CASE u.tag = "stop" -> Returned(u.gs, FALSE, 0, recv, u.log)
      [] u.tag = "err" -> Failed(u.gs, u.exc, recv, u.log)
      [] u.tag = "val" ->
           LET rc == Append(recv, u.val)
               lg == Append(u.log, Call(0, predicate.name, <<u.val>>))
           IN  IF PredRaises(predicate, u.val)
               THEN Failed(u.gs, PredRaised(predicate), rc, lg)
               ELSE IF ~PredHolds(predicate, u.val) THEN Returned(u.gs, FALSE, 0, rc, lg)
               ELSE all_match_FalseAtEnd(u.gs, g, predicate, rc, lg)

RECURSIVE all_match(_, _, _, _, _)
all_match(gs, g, predicate, recv, log) ==
    LET u == GenNext(gs, g, log) IN
    CASE u.tag = "stop" -> Returned(u.gs, TRUE, 0, recv, u.log)
      [] u.tag = "err" -> Failed(u.gs, u.exc, recv, u.log)
      [] u.tag = "val" ->
           LET rc == Append(recv, u.val)
               lg == Append(u.log, Call(0, predicate.name, <<u.val>>))
           IN  IF PredRaises(predicate, u.val)
               THEN Failed(u.gs, PredRaised(predicate), rc, lg)
               ELSE IF ~PredHolds(predicate, u.val) THEN Returned(u.gs, FALSE, 0, rc, lg)
               ELSE all_match(u.gs, g, predicate, rc, lg)

\* none_match handing the predicate itself to all_match
none_match_NotNegated(gs, g, name, recv, log) == all_match(gs, g, Pred(name), recv, log)

none_match(gs, g, name, recv, log) == all_match(gs, g, NotPred(name), recv, log)

\* count that stops at the first element instead of draining the generator
count_FirstOnly(gs, g, recv, log) ==
    LET u == GenNext(gs, g, log) IN
    CASE u.tag = "stop" -> Returned(u.gs, FALSE, 0, recv, u.log)
      [] u.tag = "err" -> Failed(u.gs, u.exc, recv, u.log)
      [] u.tag = "val" -> Returned(u.gs, FALSE, 1, Append(recv, u.val), u.log)

\* len(list(self._stream))
RECURSIVE count(_, _, _, _)
count(gs, g, recv, log) ==
    LET u == GenNext(gs, g, log) IN
    CASE u.tag = "stop" -> Returned(u.gs, FALSE, Len(recv), recv, u.log)
      [] u.tag = "err" -> Failed(u.gs, u.exc, recv, u.log)
      [] u.tag = "val" -> count(u.gs, g, Append(recv, u.val), u.log)

\* ------------------------------------------------------------------ state
Handles == 1..Len(streams)
Generators == 1..Len(gens)
CanBuild == Len(streams) < MaxStreams

\* the last consuming call: which one, on what, what it returned ("ret") or that
\* it raised ("err") and what, the elements it was handed, the callbacks that ran, and
\* the generator it pulled as it was before the call
Outcome(op, h, g, fn, tag, exc, ret, cnt, recv, log, pre) ==
    [op |-> op, h |-> h, g |-> g, fn |-> fn, tag |-> tag, exc |-> exc,
     ret |-> ret, cnt |-> cnt, recv |-> recv, log |-> log, pre |-> pre]

Done(op, h, g, fn, r) ==
    Outcome(op, h, g, fn, r.tag, r.exc, r.ret, r.cnt, r.recv, r.log, gens[g])

Init ==
    /\ \E items \in SeqsUpTo(Values, MaxLen) : gens = <<SourceGen(items)>>
    /\ streams = <<1>>
    /\ last = Outcome("none", 0, 0, "", "none", "", FALSE, 0, <<>>, <<>>,
                       NewGen("none", 0, <<>>, "", 0))

\* a constructor that runs the new generator up to its first yield
Wrap_Primed(kind, up, ups, fn, n) ==
    /\ CanBuild
    /\ gens' = GenNext(Append(gens, NewGen(kind, up, ups, fn, n)),
                        Len(gens) + 1, <<>>).gs
    /\ streams' = Append(streams, Len(gens) + 1)
    /\ UNCHANGED last

\* _DefaultStream(generator): a new handle over a new generator
Wrap(kind, up, ups, fn, n) ==
    /\ CanBuild
    /\ gens' = Append(gens, NewGen(kind, up, ups, fn, n))
    /\ streams' = Append(streams, Len(gens) + 1)
    /\ UNCHANGED last

StreamOf(g) ==
    /\ CanBuild
    /\ streams' = Append(streams, g)
    /\ UNCHANGED <<gens, last>>

Empty == Wrap("empty", 0, <<>>, "", 0)

\* what concat() is given: Stream handles, and generators the caller made itself
ConcatInputs ==
    {[is_gen |-> TRUE, id |-> g] : g \in {x \in Generators : gens[x].kind = "source"}}
        \cup {[is_gen |-> FALSE, id |-> h] : h \in Handles}

Concat(ins) == Wrap("concat", 0, ins, "", 0)

\* map over a copy of the generator of the stream it is called on
Map_OverCopy(h, mapper) ==
    /\ CanBuild
    /\ gens' = gens \o <<gens[streams[h]],
                          NewGen("map", Len(gens) + 1, <<>>, mapper, 0)>>
    /\ streams' = Append(streams, Len(gens) + 2)
    /\ UNCHANGED last

Map(h, mapper) == Wrap("map", streams[h], <<>>, mapper, 0)
Filter(h, filtration) == Wrap("filter", streams[h], <<>>, filtration, 0)
NotNull(h) == Wrap("not_null", streams[h], <<>>, "", 0)
Distinct(h, comparator) == Wrap("distinct", streams[h], <<>>, comparator, 0)
Peek(h, action) == Wrap("peek", streams[h], <<>>, action, 0)
Skip(h, skip_index) == Wrap("skip", streams[h], <<>>, "", skip_index)
Limit(h, max_size) == Wrap("limit", streams[h], <<>>, "", max_size)

Terminal(op, h, fn, r) ==
    /\ gens' = r.gs
    /\ last' = Done(op, h, streams[h], fn, r)
    /\ UNCHANGED streams

AnyMatch(h, p) == Terminal("any_match", h, p, any_match(gens, streams[h], Pred(p), <<>>, <<>>))
AllMatch(h, p) == Terminal("all_match", h, p, all_match(gens, streams[h], Pred(p), <<>>, <<>>))
NoneMatch(h, p) == Terminal("none_match", h, p, none_match(gens, streams[h], p, <<>>, <<>>))
Count(h) == Terminal("count", h, "", count(gens, streams[h], <<>>, <<>>))

\* next() on a generator the caller holds (its own, or one from get_stream())
ManualPull(g) ==
    LET u == GenNext(gens, g, <<>>) IN
    /\ gens' = u.gs
    /\ last' = Outcome("next", 0, g, "", u.tag, u.exc, FALSE, 0,
                        IF u.tag = "val" THEN <<u.val>> ELSE <<>>, u.log, gens[g])
    /\ UNCHANGED streams

Factories ==
    \/ \E g \in Generators : StreamOf(g)
    \/ Empty
    \/ \E ins \in SeqsUpTo(ConcatInputs, MaxInputs) : Concat(ins)

Callbacks ==
    \/ \E h \in Handles, f \in Mappers : Map(h, f)
    \/ \E h \in Handles, p \in Predicates : Filter(h, p)
    \/ \E h \in Handles : NotNull(h)
    \/ \E h \in Handles, c \in Comparators : Distinct(h, c)
    \/ \E h \in Handles, a \in Actions : Peek(h, a)

Skips == \E h \in Handles, n \in SizeArgs : Skip(h, n)
Limits == \E h \in Handles, n \in SizeArgs : Limit(h, n)

Terminals ==
    \/ \E h \in Handles, p \in Predicates : AnyMatch(h, p)
    \/ \E h \in Handles, p \in Predicates : AllMatch(h, p)
    \/ \E h \in Handles, p \in Predicates : NoneMatch(h, p)
    \/ \E h \in Handles : Count(h)

Pulls == \E g \in Generators : ManualPull(g)

\* every operation of the library, in any order
Next == Factories \/ Callbacks \/ Skips \/ Limits \/ Terminals \/ Pulls
Spec == Init /\ [][Next]_vars

\* streams over the source, empty streams, and the terminal operators
EmptyStreams ==
    \/ \E g \in Generators : StreamOf(g)
    \/ Empty
    \/ Concat(<<>>)

NextTerminal == EmptyStreams \/ Terminals \/ Pulls
SpecTerminal == Init /\ [][NextTerminal]_vars

\* skip() stages, consumed by count() and by next() on their generators
Counts == \E h \in Handles : Count(h)
NextSkip == Skips \/ Counts \/ Pulls
SpecSkip == Init /\ [][NextSkip]_vars

\* the state after Stream.stream(generator).<stage>(...): the caller holds the
\* handle of the stage, not the one of the stream below it
InitChain(sources, kind, fns, ns) ==
    /\ \E items \in sources, fn \in fns, n \in ns :
          gens = <<SourceGen(items), NewGen(kind, 1, <<>>, fn, n)>>
    /\ streams = <<2>>
    /\ last = Outcome("none", 0, 0, "", "none", "", FALSE, 0, <<>>, <<>>,
                       NewGen("none", 0, <<>>, "", 0))

\* next() on the generator of a handle the caller holds
HeldPulls == \E h \in Handles : ManualPull(get_stream(h))

\* distinct() stages over distinct() stages
InitDistinct ==
    InitChain(SeqsUpTo(Values, MaxLen) \cup DistinctExamples, "distinct",
              DistinctComparators, {0})
Distincts == \E h \in Handles, c \in DistinctComparators : Distinct(h, c)
NextDistinct == Distincts \/ Counts \/ HeldPulls
SpecDistinct == InitDistinct /\ [][NextDistinct]_vars

\* the state after Stream.concat(x1, ..., xk) over k generators, each given
\* as the generator or wrapped by Stream.stream first and given as the Stream
ConcatParts == {<<>>, <<3>>, <<1, 2>>}
RECURSIVE Wrapped(_, _)
Wrapped(raw, k) ==
    IF k = 0 THEN <<>>
    ELSE IF raw[k] THEN Wrapped(raw, k - 1) ELSE Append(Wrapped(raw, k - 1), k)
InitConcat ==
    \E items \in [1..ConcatArity -> ConcatParts],
       raw \in [1..ConcatArity -> BOOLEAN] :
        /\ gens = [i \in 1..(ConcatArity + 1) |->
                    IF i <= ConcatArity THEN SourceGen(items[i])
                    ELSE NewGen("concat", 0,
                                [j \in 1..ConcatArity |->
                                    [is_gen |-> raw[j],
                                     id |-> IF raw[j] THEN j ELSE Len(Wrapped(raw, j))]],
                                "", 0)]
        /\ streams = Append(Wrapped(raw, ConcatArity), ConcatArity + 1)
        /\ last = Outcome("none", 0, 0, "", "none", "", FALSE, 0, <<>>, <<>>,
                           NewGen("none", 0, <<>>, "", 0))
NextConcat == Counts \/ HeldPulls
SpecConcat == InitConcat /\ [][NextConcat]_vars

\* map(), filter() and peek() stages over one another; the worked examples
\* start with filter(is_even)
ChainSources == SeqsUpTo(Values, MaxLen)
InitPipeline ==
    \/ InitChain(ChainSources, "map", ChainMappers, {0})
    \/ InitChain(ChainSources, "filter", Predicates, {0})
    \/ InitChain(ChainSources, "peek", Actions, {0})
    \/ InitChain(ChainExamples, "filter", {"is_even"}, {0})
Maps == \E h \in Handles, f \in ChainMappers : Map(h, f)
Filters == \E h \in Handles, p \in Predicates : Filter(h, p)
Peeks == \E h \in Handles, a \in Actions : Peek(h, a)
NextPipeline == Maps \/ Filters \/ Peeks \/ Counts \/ HeldPulls
SpecPipeline == InitPipeline /\ [][NextPipeline]_vars

\* next() on a generator the caller made itself
SourcePulls == \E g \in Generators : gens[g].kind = "source" /\ ManualPull(g)

\* every constructor, with count() and next() on the source between the
\* constructions
NextBuild == Factories \/ Callbacks \/ Skips \/ Limits \/ Counts \/ SourcePulls
SpecBuild == Init /\ [][NextBuild]_vars

\* stages whose callbacks raise, under every terminal operator and next()
FailMappers == {"inc", "some"}
InitFail ==
    \/ InitChain(SeqsUpTo(Values, MaxLen), "map", FailMappers, {0})
    \/ InitChain(SeqsUpTo(Values, MaxLen), "filter", {"is_even"}, {0})
    \/ InitChain(SeqsUpTo(Values, MaxLen), "peek", Actions, {0})
    \/ InitChain(SeqsUpTo(Values, MaxLen), "distinct", {"same_parity"}, {0})
FailMaps == \E h \in Handles, f \in FailMappers : Map(h, f)
NextFail == FailMaps \/ Filters \/ Peeks \/ Terminals \/ HeldPulls
SpecFail == InitFail /\ [][NextFail]_vars

\* map(), filter(), peek(), skip() and limit() stages over one another
NextLazy == Maps \/ Filters \/ Peeks \/ Skips \/ Limits \/ Counts \/ HeldPulls
SpecLazy == InitPipeline /\ [][NextLazy]_vars

\* streams derived from one stream, further handles on its generator, and
\* any_match(), count() and next() on all of them
Rewraps == \E g \in Generators : StreamOf(g)
Matches == \E h \in Handles, p \in Predicates : AnyMatch(h, p)
NextShare == Rewraps \/ Maps \/ Filters \/ Matches \/ Counts \/ Pulls
SpecShare == Init /\ [][NextShare]_vars

\* ------------------------------------------------------------ properties
Min(a, b) == IF a < b THEN a ELSE b
Max(a, b) == IF a > b THEN a ELSE b
Drop(s, n) == SubSeq(s, n + 1, Len(s))

TerminalOps == {"any_match", "all_match", "none_match", "count"}

\* the generators a limit() / skip() call made
LimitGens == {g \in Generators : gens[g].kind = "limit"}
SkipGens == {g \in Generators : gens[g].kind = "skip"}

\* the answer a terminal operator gives on an empty sequence
EmptyAnswer(l) ==
    /\ l.op = "count" => l.cnt = 0
    /\ l.op = "any_match" => ~l.ret
    /\ l.op \in {"all_match", "none_match"} => l.ret

\* this step is a terminal operator called on the handle h
TerminalOn(h) ==
    \/ \E p \in Predicates : AnyMatch(h, p) \/ AllMatch(h, p) \/ NoneMatch(h, p)
    \/ Count(h)

\* C1: a limit(n) stage with n > 0 hands on at most n elements and pulls at
\* most n elements from the generator below it.
C1_LimitPullsAtMostN ==
    \A g \in LimitGens :
        gens[g].n > 0 => Len(gens[g].out) <= gens[g].n /\ Len(gens[g].in) <= gens[g].n

\* C2: count() on limit(n) over a source of length L, both consumed by nothing
\* else, returns min(n, L) when n > 0 and 0 when n <= 0.
C2_LimitCount ==
    (/\ last.op = "count" /\ last.tag = "ret"
     /\ gens[last.g].kind = "limit"
     /\ gens[gens[last.g].up].kind = "source"
     /\ gens[gens[last.g].up].out = gens[last.g].in
     /\ gens[last.g].out = last.recv)
    => LET n == gens[last.g].n
           src == gens[gens[last.g].up]
           L == Len(src.out) + Len(src.items)
       IN  last.cnt = IF n > 0 THEN Min(n, L) ELSE 0

\* C3: a limit(n) stage with n <= 0 hands on nothing and pulls nothing from
\* the generator below it.
C3_LimitZeroPullsNothing ==
    \A g \in LimitGens :
        gens[g].n <= 0 => gens[g].out = <<>> /\ gens[g].in = <<>>

\* C4: once a terminal operator has returned on a stream, the terminal
\* operator called next on that stream gives the empty-sequence answer.
C4_TerminalLeavesExhausted ==
    [][\A h \in Handles :
         (/\ last.op \in TerminalOps /\ last.tag = "ret" /\ last.h = h
          /\ TerminalOn(h) /\ last'.tag = "ret")
         => EmptyAnswer(last')]_vars

\* p holds of v (and calling it on v does not raise)
Sat(p, v) == ~PredRaises(p, v) /\ PredHolds(p, v)

\* the calls the terminal operator itself made, and what they are when the
\* predicate fn is called once on each element of recv, in order
TerminalCalls(log) == SelectSeq(log, LAMBDA c : c.g = 0)
OncePerElement(fn, recv) == [i \in 1..Len(recv) |-> Call(0, fn, <<recv[i]>>)]

\* the position of the first element of s that satisfies p, 0 if there is none
FirstSat(p, s) ==
    IF \E i \in 1..Len(s) : Sat(p, s[i])
    THEN CHOOSE i \in 1..Len(s) : Sat(p, s[i]) /\ \A j \in 1..(i - 1) : ~Sat(p, s[j])
    ELSE 0

\* the call in `last` pulled exactly the elements recv from its generator, and
\* if that generator is a source they are the next ones of the source, in order
PulledInOrder ==
    /\ gens[last.g].out = last.pre.out \o last.recv
    /\ last.pre.kind = "source" => last.pre.items = last.recv \o gens[last.g].items

\* the generator has nothing left to yield
Exhausted(r) ==
    \/ r.st = "done"
    \/ r.kind = "empty"
    \/ r.kind = "concat" /\ r.ups = <<>>
    \/ r.kind = "source" /\ r.items = <<>>

\* C5: any_match(p) pulls in source order, calls p once on each element it
\* pulls, returns true on the first element satisfying p without pulling
\* another, and returns false only when the producer is exhausted with no match.
C5_AnyMatchShortCircuits ==
    last.op = "any_match" =>
        LET p == Pred(last.fn)
            n == Len(last.recv)
        IN  /\ PulledInOrder
            /\ TerminalCalls(last.log) = OncePerElement(last.fn, last.recv)
            /\ \A i \in 1..(n - 1) : ~Sat(p, last.recv[i])
            /\ last.tag = "ret" =>
                 /\ last.ret = (\E i \in 1..n : Sat(p, last.recv[i]))
                 /\ last.ret => Sat(p, last.recv[n])
                 /\ ~last.ret => gens[last.g].st = "done"
                 /\ last.pre.kind = "source" =>
                      last.ret = (\E i \in 1..Len(last.pre.items) : Sat(p, last.pre.items[i]))
C5_Witness ==
    /\ last.op = "any_match" /\ last.tag = "ret" /\ last.ret
    /\ last.pre.kind = "source" /\ gens[last.g].items # <<>>

\* C6: all_match(p) returns false on the first element failing p without
\* pulling another, and returns true only when the producer is exhausted and
\* every element satisfied p.
C6_AllMatchShortCircuits ==
    last.op = "all_match" =>
        LET p == Pred(last.fn)
            n == Len(last.recv)
        IN  /\ PulledInOrder
            /\ TerminalCalls(last.log) = OncePerElement(last.fn, last.recv)
            /\ \A i \in 1..(n - 1) : Sat(p, last.recv[i])
            /\ last.tag = "ret" =>
                 /\ last.ret = (\A i \in 1..n : Sat(p, last.recv[i]))
                 /\ ~last.ret => ~Sat(p, last.recv[n])
                 /\ last.ret => gens[last.g].st = "done"
                 /\ last.pre.kind = "source" =>
                      last.ret = (\A i \in 1..Len(last.pre.items) : Sat(p, last.pre.items[i]))
C6_Witness ==
    /\ last.op = "all_match" /\ last.tag = "ret" /\ ~last.ret
    /\ last.pre.kind = "source" /\ gens[last.g].items # <<>>

\* C7: none_match(p) gives the result all_match(not p) gives and pulls the
\* same elements: false right after the first element satisfying p, true when
\* the producer is exhausted and no element satisfied p.
C7_NoneMatchIsAllMatchNot ==
    (last.op = "none_match" /\ last.tag = "ret" /\ last.pre.kind = "source") =>
        LET p == Pred(last.fn)
            k == FirstSat(p, last.pre.items)
            ref == all_match([gens EXCEPT ![last.g] = last.pre], last.g,
                             [name |-> last.fn, neg |-> TRUE], <<>>, <<>>)
        IN  /\ last.ret = (k = 0)
            /\ last.recv = SubSeq(last.pre.items, 1,
                                  IF k = 0 THEN Len(last.pre.items) ELSE k)
            /\ gens[last.g].items = Drop(last.pre.items, Len(last.recv))
            /\ ref.tag = "ret" /\ ref.ret = last.ret /\ ref.recv = last.recv
            /\ ref.gs = gens
C7_Witness ==
    /\ last.op = "none_match" /\ last.tag = "ret" /\ ~last.ret
    /\ last.pre.kind = "source" /\ gens[last.g].items # <<>>

\* C8: on a stream with nothing left (empty(), concat() of nothing, a drained
\* producer) every terminal operator returns, with the empty-sequence answer
\* and without calling the predicate, and the stream still has nothing left.
C8_EmptyStreamAnswers ==
    (last.op \in TerminalOps /\ Exhausted(last.pre)) =>
        /\ last.tag = "ret"
        /\ EmptyAnswer(last)
        /\ last.recv = <<>> /\ last.log = <<>>
        /\ gens[last.g].st = "done"
C8_Witness ==
    /\ last.op \in TerminalOps /\ last.tag = "ret"
    /\ last.pre.kind = "concat" /\ last.pre.st = "done"

\* C9: count() pulls every remaining element of the producer, returns how
\* many it pulled, and leaves the producer exhausted.
C9_CountDrains ==
    (last.op = "count" /\ last.tag = "ret") =>
        /\ PulledInOrder
        /\ last.cnt = Len(last.recv)
        /\ gens[last.g].st = "done"
        /\ last.pre.kind = "source" =>
             last.cnt = Len(last.pre.items) /\ gens[last.g].items = <<>>
C9_Witness ==
    /\ last.op = "count" /\ last.tag = "ret" /\ last.cnt > 0
    /\ last.pre.kind = "source" /\ last.pre.out # <<>>

\* C10: what a skip(n) stage has yielded is what it has pulled without its
\* first max(n, 0) elements, in order; over a source s that it alone consumes
\* and has exhausted, that is s from position max(n, 0) onward.
C10_SkipDropsFirstN ==
    \A g \in SkipGens :
        LET r == gens[g]
            src == gens[r.up]
            k == Max(r.n, 0)
        IN  /\ r.out = Drop(r.in, Min(k, Len(r.in)))
            /\ (src.kind = "source" /\ src.out = r.in /\ r.st = "done")
               => /\ src.items = <<>>
                  /\ r.out = Drop(src.out, Min(k, Len(src.out)))
C10_Witness ==
    \E g \in SkipGens :
        /\ gens[g].n = 1 /\ gens[g].st = "done"
        /\ Len(gens[g].in) = 2 /\ Len(gens[g].out) = 1
        /\ gens[gens[g].up].kind = "source" /\ gens[gens[g].up].out = gens[g].in

DistinctGens == {g \in Generators : gens[g].kind = "distinct"}
EquivalenceComparators == {"eq", "same_parity", "same_mod3"}

\* a and b are equal in the sense of the comparator c, a the earlier value
Same(c, a, b) == IF c = "eq" THEN a = b ELSE CmpHolds(c, a, b)

\* s without every element some element kept before it is the Same as
RECURSIVE FirstOfEach(_, _, _)
FirstOfEach(s, c, kept) ==
    IF s = <<>> THEN kept
    ELSE IF \E i \in 1..Len(kept) : Same(c, kept[i], Head(s))
         THEN FirstOfEach(Tail(s), c, kept)
         ELSE FirstOfEach(Tail(s), c, Append(kept, Head(s)))

\* no call of the comparator c on elements of s raises
Comparable(c, s) == c = "eq" \/ \A i \in 1..Len(s) : s[i] # None

\* C11: a distinct stage has yielded, in order, the elements it pulled that
\* the comparator did not relate to an element yielded before; under an
\* equivalence relation no two yielded elements are equivalent and every
\* pulled element has an equivalent among them; [1,4,2,5] under a%3==b%3
\* gives [1,2] and [1,2,2,3,1] under equality gives [1,2,3].
C11_DistinctFirstOccurrences ==
    \A g \in DistinctGens :
        LET r == gens[g] IN
        Comparable(r.fn, r.in) =>
            /\ r.out = FirstOfEach(r.in, r.fn, <<>>)
            /\ r.fn \in EquivalenceComparators =>
                  /\ \A i, j \in 1..Len(r.out) : i < j => ~Same(r.fn, r.out[i], r.out[j])
                  /\ \A i \in 1..Len(r.in) :
                        \E j \in 1..Len(r.out) : Same(r.fn, r.out[j], r.in[i])
            /\ (r.in = <<1, 4, 2, 5>> /\ r.fn = "same_mod3") => r.out = <<1, 2>>
            /\ (r.in = <<1, 2, 2, 3, 1>> /\ r.fn = "eq") => r.out = <<1, 2, 3>>
C11_Witness ==
    \E g \in DistinctGens :
        /\ gens[g].in = <<1, 4, 2, 5>> /\ gens[g].fn = "same_mod3"
        /\ gens[g].st = "done" /\ gens[g].out = <<1, 2>>

\* C12: a distinct stage over a distinct stage with the same equivalence
\* relation yields every element it pulls: what S.distinct().distinct()
\* yields is what S.distinct() yields.
C12_DistinctIdempotent ==
    \A g \in DistinctGens :
        LET r == gens[g] IN
        (/\ gens[r.up].kind = "distinct" /\ gens[r.up].fn = r.fn
         /\ r.fn \in EquivalenceComparators)
        => /\ r.out = r.in
           /\ (r.st = "done" /\ r.in = gens[r.up].out) => r.out = gens[r.up].out
C12_Witness ==
    \E g \in DistinctGens :
        /\ gens[gens[g].up].kind = "distinct" /\ gens[gens[g].up].fn = "eq"
        /\ gens[g].fn = "eq" /\ gens[g].st = "done"
        /\ gens[gens[g].up].in = <<1, 2, 2, 3, 1>>
        /\ gens[g].out = <<1, 2, 3>>

ConcatGens == {g \in Generators : gens[g].kind = "concat"}

\* what the first k inputs of the concat generator r have yielded, end to end
RECURSIVE Joined(_, _)
Joined(r, k) ==
    IF k = 0 THEN <<>> ELSE Joined(r, k - 1) \o gens[YieldStream(r.ups[k])].out

\* C13: a concat generator yields what it pulls; where nothing else pulls
\* from its inputs, what it has pulled is what the inputs have yielded, first
\* input first, an input has yielded something only if every input before it
\* is exhausted, and at its end every input is exhausted; inputs are Streams
\* or generators, and concat([1,2], [], [3]) yields [1,2,3].
C13_ConcatInOrder ==
    \A g \in ConcatGens :
        LET r == gens[g]
            k == Len(r.ups)
            input(i) == gens[YieldStream(r.ups[i])]
        IN  /\ r.out = r.in
            /\ Len(Joined(r, k)) = Len(r.in) =>
                  /\ r.in = Joined(r, k)
                  /\ \A i, j \in 1..k :
                        (i < j /\ input(j).out # <<>>) =>
                            input(i).st = "done" /\ input(i).items = <<>>
                  /\ r.st = "done" => \A i \in 1..k : input(i).st = "done"
C13_Witness ==
    \E g \in ConcatGens :
        LET r == gens[g] IN
        /\ Len(r.ups) = 3 /\ r.st = "done" /\ r.out = <<1, 2, 3>>
        /\ gens[YieldStream(r.ups[1])].out = <<1, 2>>
        /\ gens[YieldStream(r.ups[2])].out = <<>>
        /\ gens[YieldStream(r.ups[3])].out = <<3>>
        /\ r.ups[1].is_gen /\ ~r.ups[2].is_gen

\* what a step adds to what generator g has pulled and yielded, and the
\* callback calls of g in the log of the operation the step performs
NewIn(g) == Drop(gens'[g].in, Len(gens[g].in))
NewOut(g) == Drop(gens'[g].out, Len(gens[g].out))
CallsOf(g) == SelectSeq(last'.log, LAMBDA c : c.g = g)
\* one call of g's callback on each element of s, in order
OneCallEach(g, s) == [i \in 1..Len(s) |-> Call(g, gens[g].fn, <<s[i]>>)]
\* the step is an operation that pulls: a terminal operator or next()
Pulling == streams' = streams
KindGens(kind) == {g \in Generators : gens[g].kind = kind}

\* C14: in any operation, a map stage calls f once on each element it pulls,
\* in order, and not otherwise; where f returns for each of them the stage
\* yields their images in order; and where f has returned for everything the
\* stage has pulled, count() on the mapped stream returns what count() on
\* the stream below would return.
C14_MapOncePerElement ==
    [][Pulling =>
        \A g \in KindGens("map") :
            /\ CallsOf(g) = OneCallEach(g, NewIn(g))
            /\ (\A i \in 1..Len(NewIn(g)) : ~MapperRaises(gens[g].fn, NewIn(g)[i]))
               => NewOut(g) = [i \in 1..Len(NewIn(g)) |->
                                  MapperValue(gens[g].fn, NewIn(g)[i])]
            /\ (/\ last'.op = "count" /\ last'.g = g /\ last'.tag = "ret"
                /\ \A i \in 1..Len(gens[g].in) : ~MapperRaises(gens[g].fn, gens[g].in[i]))
               => last'.cnt = count(gens, gens[g].up, <<>>, <<>>).cnt]_vars
C14_Witness ==
    /\ last.op = "count" /\ last.tag = "ret" /\ last.cnt = 2
    /\ gens[last.g].kind = "map" /\ gens[last.g].fn = "inc"
    /\ gens[last.g].in = <<1, 2>> /\ gens[last.g].out = <<2, 3>>
    /\ last.log = <<Call(last.g, "inc", <<1>>), Call(last.g, "inc", <<2>>)>>

\* C15: in any operation, a filter stage calls p once on each element it
\* pulls, in order, and where p returns for each of them it yields those
\* p holds of, in order; when count() on it returns and p never raised, the
\* stream below is exhausted; filter(is_even).map(x * 10) over [1,2,3,4,5]
\* yields [20,40].
C15_FilterSubsequence ==
    [][Pulling =>
        \A g \in KindGens("filter") :
            /\ CallsOf(g) = OneCallEach(g, NewIn(g))
            /\ (\A i \in 1..Len(NewIn(g)) : ~PredRaises(Pred(gens[g].fn), NewIn(g)[i]))
               => NewOut(g) = SelectSeq(NewIn(g),
                                        LAMBDA t : PredHolds(Pred(gens[g].fn), t))
            /\ (/\ last'.op = "count" /\ last'.g = g /\ last'.tag = "ret"
                /\ \A i \in 1..Len(gens[g].in) : ~PredRaises(Pred(gens[g].fn), gens[g].in[i]))
               => gens'[gens[g].up].st = "done"
            /\ \A m \in KindGens("map") :
                  (/\ gens[m].up = g /\ gens[m].fn = "times10"
                   /\ gens[g].fn = "is_even" /\ gens'[g].in = <<1, 2, 3, 4, 5>>
                   /\ gens'[m].in = gens'[g].out /\ gens'[m].st = "done")
                  => gens'[m].out = <<20, 40>>]_vars
C15_Witness ==
    \E m \in KindGens("map") :
        LET g == gens[m].up IN
        /\ gens[g].kind = "filter" /\ gens[g].fn = "is_even"
        /\ gens[m].fn = "times10" /\ gens[m].st = "done"
        /\ gens[g].in = <<1, 2, 3, 4, 5>> /\ gens[m].out = <<20, 40>>
        /\ last.op = "count" /\ last.g = m /\ last.cnt = 2
        /\ SelectSeq(last.log, LAMBDA c : c.g = g)
             = [i \in 1..5 |-> Call(g, "is_even", <<i>>)]

\* C16: in any operation, a peek stage calls the action once on each element
\* it pulls, in order, and yields these elements unchanged; the stage above
\* it makes its call on an element right after the action was called on it;
\* draining it over filter(is_even) on [1,2,3,4] calls the action on 2, then
\* on 4.
C16_PeekBeforeDownstream ==
    [][Pulling =>
        \A g \in KindGens("peek") :
            /\ CallsOf(g) = OneCallEach(g, NewIn(g))
            /\ NewOut(g) = NewIn(g)
            /\ \A d \in KindGens("map") \cup KindGens("filter") \cup KindGens("peek") :
                  (gens[d].up = g /\ NewIn(d) = NewOut(g))
                  => LET both == SelectSeq(last'.log, LAMBDA c : c.g \in {g, d})
                     IN  /\ Len(both) = 2 * Len(NewIn(d))
                         /\ \A i \in 1..Len(NewIn(d)) :
                               /\ both[2 * i - 1] = Call(g, gens[g].fn, <<NewIn(d)[i]>>)
                               /\ both[2 * i] = Call(d, gens[d].fn, <<NewIn(d)[i]>>)
            /\ (/\ gens[gens[g].up].kind = "filter" /\ gens[gens[g].up].fn = "is_even"
                /\ gens[gens[g].up].in = <<>> /\ gens'[gens[g].up].in = <<1, 2, 3, 4>>
                /\ NewIn(g) = NewOut(gens[g].up))
               => CallsOf(g) = <<Call(g, gens[g].fn, <<2>>), Call(g, gens[g].fn, <<4>>)>>]_vars
C16_Witness ==
    \E g \in KindGens("peek") :
        /\ gens[gens[g].up].kind = "filter" /\ gens[gens[g].up].fn = "is_even"
        /\ gens[gens[g].up].in = <<1, 2, 3, 4>> /\ gens[g].out = <<2, 4>>
        /\ last.op = "count" /\ last.g = g /\ last.pre.in = <<>>
        /\ SelectSeq(last.log, LAMBDA c : c.g = g)
             = <<Call(g, "note", <<2>>), Call(g, "note", <<4>>)>>
\* a stage above a peek stage has made its call on an element after the
\* action's call on it
C16_WitnessDownstream ==
    \E g \in KindGens("peek"), d \in KindGens("map") :
        /\ gens[d].up = g /\ last.g = d
        /\ last.log = <<Call(g, "note", <<1>>), Call(d, "inc", <<1>>),
                        Call(g, "note", <<2>>), Call(d, "inc", <<2>>)>>

\* C17: a step that makes a Stream changes no generator there was, adds at
\* most one generator, which has pulled and yielded nothing and has not been
\* started, and is no operation with a call log; a step that changes a
\* generator is a terminal operator or a next().
C17_ConstructionPullsNothing ==
    [][/\ streams' # streams =>
            /\ last' = last
            /\ Len(gens') \in {Len(gens), Len(gens) + 1}
            /\ \A g \in Generators : gens'[g] = gens[g]
            /\ \A g \in (1..Len(gens')) \ Generators :
                  /\ gens'[g].st = "new"
                  /\ gens'[g].in = <<>> /\ gens'[g].out = <<>>
       /\ (\E g \in Generators : gens'[g] # gens[g]) =>
            /\ streams' = streams
            /\ last'.op \in TerminalOps \cup {"next"}]_vars
\* a stage was built over a stream that still has elements, and they are
\* still there
C17_Witness ==
    \E g \in Generators :
        /\ gens[g].kind \in {"map", "filter", "peek", "distinct", "skip", "limit",
                              "not_null", "concat"}
        /\ gens[g].st = "new"
        /\ \E u \in Generators :
              /\ gens[u].kind = "source" /\ Len(gens[u].items) = MaxLen
              /\ gens[u].st = "new"
              /\ u = gens[g].up \/ \E i \in 1..Len(gens[g].ups) : YieldStream(gens[g].ups[i]) = u

\* the logged call c is one on which the callback raises, and what it raises
CallRaises(c) ==
    \/ c.fn \in ChainMappers \cup FailMappers /\ MapperRaises(c.fn, c.args[1])
    \/ c.fn \in Predicates /\ PredRaises(Pred(c.fn), c.args[1])
    \/ c.fn \in DistinctComparators \ {"eq"} /\ CmpRaises(c.fn, c.args[1], c.args[2])
CallRaised(c) ==
    IF c.fn \in ChainMappers \cup FailMappers THEN MapperRaised(c.fn)
    ELSE IF c.fn \in Predicates THEN PredRaised(Pred(c.fn))
    ELSE CmpRaised(c.fn)
Final(s) == s[Len(s)]

\* from generator g down to the source, each generator's newest element is
\* the newest one the generator below it yielded
RECURSIVE NothingPulledSince(_)
NothingPulledSince(g) ==
    \/ gens[g].kind = "source"
    \/ /\ gens[g].in # <<>> /\ gens[gens[g].up].out # <<>>
       /\ Final(gens[gens[g].up].out) = Final(gens[g].in)
       /\ NothingPulledSince(gens[g].up)

\* the call c, which raises, ended the last operation, which raised exc
EndedBy(c, exc) ==
    /\ c = Final(last.log)
    /\ last.tag = "err" /\ last.exc = exc
    /\ IF c.g = 0
       THEN /\ Final(last.recv) = Final(c.args)
            /\ Final(gens[last.g].out) = Final(c.args)
            /\ NothingPulledSince(last.g)
       ELSE /\ Final(gens[c.g].in) = Final(c.args)
            /\ NothingPulledSince(c.g)

\* C18: when a callback raises in an operation, nothing is called after it,
\* the operation raises what the callback raised, and the element it raised
\* on is the last one pulled from the source; and an operation raises only
\* where a callback did.
C18_CallbackFailurePropagates ==
    /\ \A i \in 1..Len(last.log) :
          CallRaises(last.log[i]) =>
              i = Len(last.log) /\ EndedBy(last.log[i], CallRaised(last.log[i]))
    /\ last.tag = "err" => last.log # <<>> /\ CallRaises(Final(last.log))

\* the same, with the StopIteration of a callback called in a stage arriving
\* as the RuntimeError Python makes of it
FailurePropagatesEscaped ==
    /\ \A i \in 1..Len(last.log) :
          CallRaises(last.log[i]) =>
              /\ i = Len(last.log)
              /\ EndedBy(last.log[i],
                         IF last.log[i].g = 0 THEN CallRaised(last.log[i])
                         ELSE Escaping(CallRaised(last.log[i])))
    /\ last.tag = "err" => last.log # <<>> /\ CallRaises(Final(last.log))

\* how many stages generator g is away from the source, and whether the
\* pulls of generator t go through generator g
RECURSIVE Depth(_)
Depth(g) == IF gens[g].up = 0 THEN 0 ELSE Depth(gens[g].up) + 1
RECURSIVE OnPath(_, _)
OnPath(g, t) == g = t \/ (gens[t].up # 0 /\ OnPath(g, gens[t].up))
CallbackStages(t) ==
    {g \in Generators : OnPath(g, t) /\ gens[g].kind \in {"map", "filter", "peek"}}

\* the stage that made the logged call c yields on it, and what
Passes(c) ==
    CASE gens[c.g].kind = "map" -> ~MapperRaises(c.fn, c.args[1])
      [] gens[c.g].kind = "filter" ->
           ~PredRaises(Pred(c.fn), c.args[1]) /\ PredHolds(Pred(c.fn), c.args[1])
      [] OTHER -> TRUE
Passed(c) ==
    IF gens[c.g].kind = "map" THEN MapperValue(c.fn, c.args[1]) ELSE c.args[1]

\* every call in the log of an operation on generator t either starts an
\* element at the callback stage nearest the source, or is made by a stage
\* further from the source on what the call before it let through
OneElementAtATime(log, t) ==
    \A i \in 1..Len(log) :
        /\ log[i].g \in CallbackStages(t)
        /\ \/ \A g \in CallbackStages(t) : Depth(log[i].g) <= Depth(g)
           \/ /\ i > 1 /\ Passes(log[i - 1])
              /\ Depth(log[i].g) > Depth(log[i - 1].g)
              /\ log[i].args = <<Passed(log[i - 1])>>

\* a next() on generator t that yields: t yielded once, and every stage on
\* the way pulled what the stage below it yielded and yielded last what
\* comes from the newest element it pulled
NothingBuffered(t) ==
    /\ Len(NewOut(t)) = 1
    /\ \A g \in Generators :
        (OnPath(g, t) /\ gens[g].up # 0) =>
            /\ NewIn(g) = NewOut(gens[g].up)
            /\ NewOut(g) # <<>> /\ NewIn(g) # <<>>
            /\ Final(NewOut(g)) = IF gens[g].kind = "map"
                                   THEN MapperValue(gens[g].fn, Final(NewIn(g)))
                                   ELSE Final(NewIn(g))

\* the callbacks of an operation run one element at a time, source side
\* first, and no stage holds an element back
ElementAtATime ==
    [][Pulling =>
        /\ OneElementAtATime(last'.log, last'.g)
        /\ (last'.op = "next" /\ last'.tag = "val") => NothingBuffered(last'.g)]_vars

\* C19: the callbacks of an operation run one element at a time, source side
\* first, no stage holds an element back, and a stage pulls no more than it
\* needs for its next output: a limit stage that has yielded its max_size
\* elements pulls nothing.
C19_ElementAtATime ==
    [][Pulling =>
        /\ OneElementAtATime(last'.log, last'.g)
        /\ (last'.op = "next" /\ last'.tag = "val") => NothingBuffered(last'.g)
        /\ \A g \in KindGens("limit") :
              Len(gens[g].out) >= Max(gens[g].n, 0) => NewIn(g) = <<>>]_vars

\* C20: making a stream adds at most one generator, which reads the generator
\* of the stream it is derived from; a source generator keeps its elements
\* in order, yielded ones first; and in every operation what a generator
\* yields goes to one taker, a stage over it or the caller of an operation
\* on it, while the other stages over it pull nothing.
C20_SharedProducer ==
    [][/\ streams' # streams =>
            /\ Len(gens') \in {Len(gens), Len(gens) + 1}
            /\ \A g \in (1..Len(gens')) \ Generators :
                  \E h \in Handles : gens'[g].up = get_stream(h)
       /\ \A u \in Generators :
            LET over == {g \in Generators : gens[g].up = u}
                direct == IF last'.g = u /\ Pulling THEN last'.recv ELSE <<>>
            IN  /\ gens[u].kind = "source" =>
                      gens'[u].out \o gens'[u].items = gens[u].out \o gens[u].items
                /\ \E taker \in over \cup {0} :
                      /\ NewOut(u) = IF taker = 0 THEN direct ELSE NewIn(taker)
                      /\ taker # 0 => direct = <<>>
                      /\ \A g \in over \ {taker} : NewIn(g) = <<>>]_vars
\* the first element went through a derived stream, the second to next() on
\* the generator itself
C20_Witness ==
    \E g \in KindGens("map") :
        LET u == gens[g].up IN
        /\ gens[u].kind = "source" /\ gens[u].out = <<1, 2>>
        /\ gens[g].in = <<1>> /\ gens[g].out = <<2>>
        /\ last.op = "next" /\ last.g = u /\ last.recv = <<2>>

TypeOK ==
    /\ Len(streams) <= MaxStreams
    /\ \A h \in Handles : streams[h] \in Generators
====
